---- MODULE Spec2Model ----
(***************************************************************************)
(* Hub side of react-chrome-redux with selectors: wrapStoreSelectors       *)
(* (src/src/index.js).  The model covers the dispatch round trip           *)
(* (dispatchResponse, promiseResponder) and the per-port state             *)
(* synchronisation (connectState, patchState).  The Redux store, the       *)
(* chrome.runtime transport, shallowDiff and the serialization wrappers    *)
(* are collaborators that the file imports; they are modelled at their     *)
(* boundary.                                                               *)
(***************************************************************************)
EXTENDS Integers, Sequences, FiniteSets, TLC

(***************************************************************************)
(* Bounds of the model.                                                    *)
(***************************************************************************)
MaxPorts == 2
MaxRequests == 2
MaxVal == 2

Ports == 1..MaxPorts
Requests == 1..MaxRequests
Vals == 1..MaxVal

(***************************************************************************)
(* Wire constants (imported from '../constants'), and a message type of   *)
(* unrelated traffic.                                                      *)
(***************************************************************************)
DISPATCH_TYPE == "DISPATCH"
STATE_TYPE == "STATE"
PATCH_STATE_TYPE == "PATCH_STATE"
OTHER_TYPE == "OTHER"

\* The configured options.portName and a port name of unrelated traffic.
portName == "MY_APP"
otherPortName == "OTHER_APP"
PortNames == {portName, otherPortName}

(***************************************************************************)
(* Store state: a shallow object over the top-level keys a and b; a key    *)
(* may be absent.                                                          *)
(***************************************************************************)
StateKeys == {"a", "b"}
KeyOrder == <<"a", "b">>
States == UNION {[D -> Vals] : D \in SUBSET StateKeys}
EmptyView == [k \in {} |-> 0]
\* The store's state when the hub wraps it.
InitialState == [k \in StateKeys |-> IF k = "a" THEN 1 ELSE 2]

\* Object.keys(obj): the keys of obj in encounter order.
RECURSIVE KeysFrom(_, _)
KeysFrom(obj, i) ==
  IF i > Len(KeyOrder) THEN <<>>
  ELSE (IF KeyOrder[i] \in DOMAIN obj THEN <<KeyOrder[i]>> ELSE <<>>)
       \o KeysFrom(obj, i + 1)
ObjectKeys(obj) == KeysFrom(obj, 1)

(***************************************************************************)
(* The registered selectors: s1 projects a, s2 projects b.                 *)
(***************************************************************************)
SelectorKeys == <<"s1", "s2">>
SelectorNames == {"s1", "s2"}
SelectorFields(sKey) == IF sKey = "s1" THEN {"a"} ELSE {"b"}
Selector(sKey, st) == [k \in (DOMAIN st) \cap SelectorFields(sKey) |-> st[k]]

(***************************************************************************)
(* shallowDiff(oldObj, newObj): one operation per changed top-level key,   *)
(* new keys first, then removed keys.                                      *)
(***************************************************************************)
RECURSIVE DiffUpdates(_, _, _)
DiffUpdates(oldObj, newObj, keys) ==
  IF keys = <<>> THEN <<>>
  ELSE LET k == Head(keys) IN
       (IF k \notin DOMAIN oldObj
          THEN <<[op |-> "create", key |-> k, value |-> newObj[k]]>>
        ELSE IF oldObj[k] # newObj[k]
          THEN <<[op |-> "update", key |-> k, value |-> newObj[k]]>>
        ELSE <<>>)
       \o DiffUpdates(oldObj, newObj, Tail(keys))

RECURSIVE DiffDeletes(_, _, _)
DiffDeletes(oldObj, newObj, keys) ==
  IF keys = <<>> THEN <<>>
  ELSE LET k == Head(keys) IN
       (IF k \notin DOMAIN newObj THEN <<[op |-> "delete", key |-> k]>> ELSE <<>>)
       \o DiffDeletes(oldObj, newObj, Tail(keys))

shallowDiff(oldObj, newObj) ==
  DiffUpdates(oldObj, newObj, ObjectKeys(newObj))
    \o DiffDeletes(oldObj, newObj, ObjectKeys(oldObj))

\* The proxy's application of one patch operation, and of a whole patch.
ApplyOp(view, o) ==
  IF o.op = "delete" THEN [k \in (DOMAIN view) \ {o.key} |-> view[k]]
  ELSE [k \in (DOMAIN view) \cup {o.key} |-> IF k = o.key THEN o.value ELSE view[k]]

RECURSIVE ApplyPatch(_, _)
ApplyPatch(view, patch) ==
  IF patch = <<>> THEN view ELSE ApplyPatch(ApplyOp(view, Head(patch)), Tail(patch))

(***************************************************************************)
(* Serialization ('../serialization').  The hub is configured with a       *)
(* custom serializer/deserializer pair (the default, noop, is the          *)
(* passthrough): serializer wraps a payload in an envelope that the peer's *)
(* deserializer unwraps.                                                   *)
(***************************************************************************)
serializer(payload) == [encoded |-> payload]
deserializer(payload) == payload.encoded

\* transformPayload under withSerializer: the message with its payload
\* serialized.
SerializeMessage(message) == [message EXCEPT !.payload = serializer(message.payload)]

(***************************************************************************)
(* JavaScript values that travel in a Response Envelope.                   *)
(***************************************************************************)
Null == [t |-> "null"]
Undefined == [t |-> "undefined"]
Str(s) == [t |-> "string", s |-> s]
Err(m) == [t |-> "Error", message |-> m]
Obj(o) == [t |-> "object", o |-> o]

\* err.message: the message of an Error object; a string primitive has no
\* such property.
MessageOf(err) == IF err.t = "Error" THEN Str(err.message) ELSE Undefined

(***************************************************************************)
(* Actions a proxy may send.  The store's reducer understands SET and DEL, *)
(* throws Error("boom") on THROW, and a middleware answers ASYNC with a    *)
(* promise that settles later.                                             *)
(***************************************************************************)
Senders == {"tab1"}
ForgedSender == "evil"
BasePayloads ==
  {[type |-> "SET", key |-> k, val |-> v] : k \in StateKeys, v \in Vals}
    \cup {[type |-> "DEL", key |-> k] : k \in StateKeys}
    \cup {[type |-> "THROW"], [type |-> "ASYNC"]}
WithField(obj, f, x) == [k \in (DOMAIN obj) \cup {f} |-> IF k = f THEN x ELSE obj[k]]
\* Payloads that already carry a _sender field of the proxy's making.
ForgedPayloads ==
  {WithField(pl, "_sender", ForgedSender) : pl \in {[type |-> "DEL", key |-> "a"]}}
Payloads == BasePayloads \cup ForgedPayloads
\* Payloads of unrelated traffic on the same transport.
ForeignPayloads == {[type |-> "SET", key |-> "a", val |-> 1]}
NoAction == [k \in {} |-> ""]

\* The store's reducer (Redux, external).
Reduce(st, action) ==
  IF action.type = "SET" THEN WithField(st, action.key, action.val)
  ELSE IF action.type = "DEL" THEN [k \in (DOMAIN st) \ {action.key} |-> st[k]]
  ELSE st

VARIABLES state, portStatus, portNameOf, subscribers, disconnectListeners,
          prevStates, posted, req, handled, received,
          runtime, wrapResult, listeners, warnings, via

vars == <<state, portStatus, portNameOf, subscribers, disconnectListeners,
          prevStates, posted, req, handled, received,
          runtime, wrapResult, listeners, warnings, via>>

\* chrome.runtime's event sources, the outcome of the wrapStoreSelectors
\* call, the listeners it added, console.warn's output, and the event source
\* that fired last.
wrapVars == <<runtime, wrapResult, listeners, warnings, via>>

portVars == <<portStatus, portNameOf, subscribers, disconnectListeners, prevStates, posted>>

(***************************************************************************)
(* connectState / patchState (src/src/index.js 88-132).                    *)
(***************************************************************************)
\* port.name !== portName: the connection is not ours.
ForeignPortNever(name) == FALSE
ForeignPort(name) == name # portName

\* line 98: every selector executed on the store state.
InitialViews(st) == [sKey \in SelectorNames |-> Selector(sKey, st)]

\* lines 125-131: one STATE message per selector key, through the serializer.
RECURSIVE StateMessages(_, _)
StateMessages(keys, prev) ==
  IF keys = <<>> THEN <<>>
  ELSE <<SerializeMessage([type |-> STATE_TYPE, key |-> Head(keys),
                           payload |-> prev[Head(keys)]])>>
       \o StateMessages(Tail(keys), prev)

\* line 107: if (diff.length)
HasDiffAlways(diff) == TRUE
HasDiff(diff) == Len(diff) # 0

\* line 108: prevStates[sKey] = newValue
StorePrevStale(prev, sKey, newValue) == prev
StorePrevEveryKey(prev, sKey, newValue) ==
  [k \in DOMAIN prev |-> newValue]
StorePrev(prev, sKey, newValue) == [prev EXCEPT ![sKey] = newValue]

\* lines 109-113: the PATCH_STATE message posted for a non-empty diff.
PatchMessageAsState(sKey, diff) ==
  SerializeMessage([type |-> STATE_TYPE, key |-> sKey, payload |-> diff])
PatchMessageFirstKey(sKey, diff) ==
  SerializeMessage([type |-> PATCH_STATE_TYPE, key |-> SelectorKeys[1], payload |-> diff])
PatchMessage(sKey, diff) ==
  SerializeMessage([type |-> PATCH_STATE_TYPE, key |-> sKey, payload |-> diff])

\* lines 100-116: patchState of one port; acc = [prev, out] is the closure's
\* prevStates and the messages posted so far.
RECURSIVE patchState(_, _, _)
patchState(keys, acc, st) ==
  IF keys = <<>> THEN acc
  ELSE LET sKey == Head(keys)
           newValue == Selector(sKey, st)
           diff == shallowDiff(acc.prev[sKey], newValue)
       IN  IF HasDiff(diff)
             THEN patchState(Tail(keys),
                             [prev |-> StorePrev(acc.prev, sKey, newValue),
                              out |-> Append(acc.out, PatchMessage(sKey, diff))],
                             st)
             ELSE patchState(Tail(keys), acc, st)

\* store notification: every subscribed listener runs, in subscription order.
RECURSIVE Notify(_, _, _)
Notify(subs, acc, st) ==
  IF subs = <<>> THEN acc
  ELSE LET p == Head(subs)
           r == patchState(SelectorKeys, [prev |-> acc.prev[p], out |-> acc.out[p]], st)
       IN  Notify(Tail(subs),
                  [prev |-> [acc.prev EXCEPT ![p] = r.prev],
                   out |-> [acc.out EXCEPT ![p] = r.out]],
                  st)

\* store.subscribe(patchState) and the returned unsubscribe.
SubscribeTwice(subs, p) == Append(Append(subs, p), p)
Subscribe(subs, p) == Append(subs, p)
RECURSIVE Remove(_, _)
Remove(subs, p) ==
  IF subs = <<>> THEN <<>>
  ELSE IF Head(subs) = p THEN Tail(subs)
  ELSE <<Head(subs)>> \o Remove(Tail(subs), p)
UnsubscribeNothing(subs, p) == subs
Unsubscribe(subs, p) == Remove(subs, p)

\* line 96: const prevStates = {} is created inside connectState, one per
\* call, so each port's listener closes over a cache of its own.
NewClosureShared(caches, p, prev) == [q \in DOMAIN caches |-> prev]
NewClosure(caches, p, prev) == [caches EXCEPT ![p] = prev]

\* The next port the transport has not used yet.
FreshPort(p) == portStatus[p] = "unused" /\ \A q \in Ports : q < p => portStatus[q] # "unused"

\* lines 88-132: connectState(port).
connectState(p, name) ==
  /\ FreshPort(p)
  /\ portStatus' = [portStatus EXCEPT ![p] = "open"]
  /\ portNameOf' = [portNameOf EXCEPT ![p] = name]
  /\ IF ForeignPort(name)
       THEN UNCHANGED <<subscribers, disconnectListeners, prevStates, posted>>
       ELSE LET prev == InitialViews(state) IN
            /\ prevStates' = NewClosure(prevStates, p, prev)
            /\ subscribers' = Subscribe(subscribers, p)
            /\ disconnectListeners' = [disconnectListeners EXCEPT ![p] = @ \cup {"unsubscribe"}]
            /\ posted' = [posted EXCEPT ![p] = @ \o StateMessages(SelectorKeys, prev)]
  /\ UNCHANGED <<state, req, handled, received>>

\* chrome.runtime.onConnect / onConnectExternal fires connectState(port).
Connect(p, name) == connectState(p, name) /\ UNCHANGED wrapVars

\* port.onDisconnect fires: the registered listeners run.
Disconnect(p) ==
  /\ portStatus[p] = "open"
  /\ portStatus' = [portStatus EXCEPT ![p] = "closed"]
  /\ subscribers' = IF "unsubscribe" \in disconnectListeners[p]
                      THEN Unsubscribe(subscribers, p) ELSE subscribers
  /\ UNCHANGED <<state, portNameOf, disconnectListeners, prevStates, posted, req, handled, received>>
  /\ UNCHANGED wrapVars

(***************************************************************************)
(* Dispatch round trip (src/src/index.js 18-34, 65-83, 134-146).           *)
(* req holds the dispatches whose promise is still pending; handled is the *)
(* record of the handler run, or of the settlement, that finished last.    *)
(***************************************************************************)
NoRequest ==
  [pc |-> "none", id |-> 0, type |-> "", portName |-> "", payload |-> NoAction, sender |-> "",
   deserialized |-> FALSE, delivered |-> NoAction, dispatchCalls |-> 0, action |-> NoAction,
   returned |-> "none", chanOpen |-> TRUE, result |-> [status |-> "none", value |-> Undefined],
   sends |-> <<>>]

\* line 135: shouldDeserialize
shouldDeserialize(request) == request.type = DISPATCH_TYPE /\ request.portName = portName

\* deserializeListener under withDeserializer: the payload is deserialized
\* before the listener sees the message exactly when shouldDeserialize
\* accepts the message.
DeliveredPayload(request) ==
  IF shouldDeserialize(request) THEN deserializer(request.payload) ELSE request.payload

\* line 66: the guard of dispatchResponse.
IsDispatchAnyPort(request) == request.type = DISPATCH_TYPE
IsDispatch(request) == request.type = DISPATCH_TYPE /\ request.portName = portName

\* lines 67-69: Object.assign({}, request.payload, {_sender: sender})
AugmentActionPayloadWins(payload, sender) ==
  IF "_sender" \in DOMAIN payload THEN payload ELSE WithField(payload, "_sender", sender)
AugmentAction(payload, sender) == WithField(payload, "_sender", sender)

\* What store.dispatch(action) does: it throws (the reducer throws, or the
\* action has no type), a middleware returns a pending promise, or the
\* reducer runs and the action is returned.
DispatchKind(action) ==
  IF "type" \notin DOMAIN action THEN "throws"
  ELSE IF action.type = "THROW" THEN "throws"
  ELSE IF action.type = "ASYNC" THEN "promise"
  ELSE "value"
ThrownError == Err("boom")

\* line 76: dispatchResult = Promise.reject(e.message)
CaughtResult(e) == [status |-> "rejected", value |-> MessageOf(e)]

\* lines 22-25 and 29-32: the envelopes promiseResponder sends.
ThenEnvelope(res) == [error |-> Null, value |-> res]
CatchEnvelopeRaw(err) == [error |-> err, value |-> Null]
CatchEnvelope(err) == [error |-> MessageOf(err), value |-> Null]

\* sendResponse on a closed response channel raises.
SendError == Err("port closed")
SendRaises(open) == ~open

\* lines 18-34: Promise.resolve(dispatchResult).then(send ok).catch(send error),
\* run for a settled result: the sends made, in order, and how the chain ends.
promiseResponderNoCatch(dispatchResult, open) ==
  IF dispatchResult.status = "fulfilled"
    THEN [sends |-> <<[envelope |-> ThenEnvelope(dispatchResult.value),
                       raised |-> SendRaises(open)]>>,
          pc |-> IF SendRaises(open) THEN "unhandled" ELSE "done"]
    ELSE [sends |-> <<>>, pc |-> "unhandled"]
promiseResponder(dispatchResult, open) ==
  IF dispatchResult.status = "fulfilled"
    THEN LET first == [envelope |-> ThenEnvelope(dispatchResult.value),
                       raised |-> SendRaises(open)]
             second == [envelope |-> CatchEnvelope(SendError), raised |-> SendRaises(open)]
         IN  IF first.raised
               THEN [sends |-> <<first, second>>,
                     pc |-> IF second.raised THEN "unhandled" ELSE "done"]
               ELSE [sends |-> <<first>>, pc |-> "done"]
    ELSE LET only == [envelope |-> CatchEnvelope(dispatchResult.value),
                      raised |-> SendRaises(open)]
         IN  [sends |-> <<only>>, pc |-> IF only.raised THEN "unhandled" ELSE "done"]

\* The record of a handler run whose responder ran to its end.
RespondedLatestChannel(called, dispatchResult) ==
  LET latest == IF received \in Requests /\ req[received].pc = "pending"
                  THEN req[received] ELSE called
      done == promiseResponder(dispatchResult, latest.chanOpen)
  IN  [called EXCEPT !.result = dispatchResult, !.sends = done.sends, !.pc = done.pc]
Responded(called, dispatchResult) ==
  LET done == promiseResponder(dispatchResult, called.chanOpen)
  IN  [called EXCEPT !.result = dispatchResult, !.sends = done.sends, !.pc = done.pc]

\* The messages the transport may deliver.
Messages ==
  {[type |-> DISPATCH_TYPE, portName |-> portName, payload |-> serializer(pl)] : pl \in Payloads}
    \cup {[type |-> t, portName |-> n, payload |-> serializer(pl)] :
            t \in {DISPATCH_TYPE, OTHER_TYPE}, n \in PortNames, pl \in ForeignPayloads}

\* lines 65-83 behind withPayloadDeserializer (line 134): the wrapped
\* dispatchResponse(request, sender, sendResponse).
dispatchResponse(request, sender) ==
  /\ received < MaxRequests
  /\ received' = received + 1
  /\ LET delivered == [request EXCEPT !.payload = DeliveredPayload(request)]
         seen == [NoRequest EXCEPT !.id = received + 1, !.type = request.type,
                                   !.portName = request.portName, !.payload = request.payload,
                                   !.sender = sender,
                                   !.deserialized = shouldDeserialize(request),
                                   !.delivered = delivered.payload]
     IN  IF ~IsDispatch(delivered)
           THEN /\ handled' = [seen EXCEPT !.pc = "ignored", !.returned = "undefined"]
                /\ UNCHANGED <<state, prevStates, posted, req>>
           ELSE LET action == AugmentAction(delivered.payload, sender)
                    kind == DispatchKind(action)
                    called == [seen EXCEPT !.dispatchCalls = 1, !.action = action,
                                           !.returned = "true"]
                IN  CASE kind = "throws" ->
                           /\ handled' = Responded(called, CaughtResult(ThrownError))
                           /\ UNCHANGED <<state, prevStates, posted, req>>
                      [] kind = "promise" ->
                           /\ req' = [req EXCEPT ![called.id] =
                                        [called EXCEPT !.result.status = "pending",
                                                       !.pc = "pending"]]
                           /\ UNCHANGED <<state, prevStates, posted, handled>>
                      [] OTHER ->
                           LET st == Reduce(state, action)
                               n == Notify(subscribers, [prev |-> prevStates, out |-> posted], st)
                           IN  /\ state' = st
                               /\ prevStates' = n.prev
                               /\ posted' = n.out
                               /\ handled' = Responded(called, [status |-> "fulfilled",
                                                                value |-> Obj(action)])
                               /\ UNCHANGED req
  /\ UNCHANGED <<portStatus, portNameOf, subscribers, disconnectListeners>>

\* chrome.runtime.onMessage / onMessageExternal fires the wrapped
\* dispatchResponse.
Receive(request, sender) == dispatchResponse(request, sender) /\ UNCHANGED wrapVars

\* The outcomes of a pending dispatch promise.
Settlements ==
  {[status |-> "fulfilled", value |-> Str("done")],
   [status |-> "rejected", value |-> Err("fail")],
   [status |-> "rejected", value |-> Str("nope")]}

\* The promise returned by store.dispatch settles; promiseResponder's
\* callbacks run.
Settle(r, outcome) ==
  /\ req[r].pc = "pending"
  /\ handled' = Responded(req[r], outcome)
  /\ req' = [req EXCEPT ![r] = NoRequest]
  /\ UNCHANGED <<state, portVars, received, wrapVars>>

\* The requesting proxy goes away while its dispatch is pending.
CloseChannel(r) ==
  /\ req[r].pc = "pending"
  /\ req[r].chanOpen
  /\ req' = [req EXCEPT ![r].chanOpen = FALSE]
  /\ UNCHANGED <<state, portVars, handled, received, wrapVars>>

(***************************************************************************)
(* wrapStoreSelectors itself (src/src/index.js 41-55, 134-163).            *)
(***************************************************************************)
\* chrome.runtime's event sources; the external ones may be missing.
InternalSources == {"onMessage", "onConnect"}
ExternalSources == {"onMessageExternal", "onConnectExternal"}
Sources == InternalSources \cup ExternalSources
MessageSources == {"onMessage", "onMessageExternal"}
ConnectSources == {"onConnect", "onConnectExternal"}
Runtimes == {InternalSources \cup ext : ext \in SUBSET ExternalSources}

\* The options argument: portName given or missing, serializer and
\* deserializer by the typeof of the value given.
OptionSets ==
  [portName : {portName, ""}, serializer : {"function", "object"},
   deserializer : {"function", "object"}]
GoodOptions == [portName |-> portName, serializer |-> "function", deserializer |-> "function"]
NoOptions == [portName |-> "", serializer |-> "", deserializer |-> ""]

\* lines 47-55: the checks at the head of wrapStoreSelectors.
ValidateSkipPortName(options) ==
  IF options.serializer # "function" THEN "serializer must be a function"
  ELSE IF options.deserializer # "function" THEN "deserializer must be a function"
  ELSE "ok"
Validate(options) ==
  IF options.portName = "" THEN "portName is required in options"
  ELSE IF options.serializer # "function" THEN "serializer must be a function"
  ELSE IF options.deserializer # "function" THEN "deserializer must be a function"
  ELSE "ok"

\* lines 140 and 154: the handler added to an event source.
HandlerFor(src) == IF src \in MessageSources THEN "dispatchResponse" ELSE "connectState"
\* lines 145-149 and 159-163: an external source gets the same handler, if
\* chrome.runtime has that source.
ExternalHandlerNone(src, present) == "none"
ExternalHandler(src, present) == IF src \in present THEN HandlerFor(src) ELSE "none"
Register(present) ==
  [src \in Sources |-> IF src \in InternalSources THEN HandlerFor(src)
                                                 ELSE ExternalHandler(src, present)]
NoListeners == [src \in Sources |-> "none"]

\* lines 148 and 162: console.warn for a missing external source.
WarningFor(src) == "runtime." \o src \o " is not supported"
Warnings(present) ==
  (IF "onMessageExternal" \in present THEN <<>> ELSE <<WarningFor("onMessageExternal")>>)
    \o (IF "onConnectExternal" \in present THEN <<>> ELSE <<WarningFor("onConnectExternal")>>)

\* lines 41-164: the call wrapStoreSelectors(store, selectors, options).
Wrap(options) ==
  /\ wrapResult.status = "none"
  /\ LET verdict == Validate(options) IN
       IF verdict # "ok"
         THEN /\ wrapResult' = [status |-> "threw", error |-> verdict, options |-> options]
              /\ UNCHANGED <<listeners, warnings>>
         ELSE /\ wrapResult' = [status |-> "returned", error |-> "", options |-> options]
              /\ listeners' = Register(runtime)
              /\ warnings' = warnings \o Warnings(runtime)
  /\ UNCHANGED <<state, portVars, req, handled, received, runtime, via>>

\* An event source of chrome.runtime fires: its listener runs.
OnMessage(src, request, sender) ==
  /\ src \in runtime
  /\ listeners[src] = "dispatchResponse"
  /\ dispatchResponse(request, sender)
  /\ via' = src
  /\ UNCHANGED <<runtime, wrapResult, listeners, warnings>>
OnConnect(src, p, name) ==
  /\ src \in runtime
  /\ listeners[src] = "connectState"
  /\ connectState(p, name)
  /\ via' = src
  /\ UNCHANGED <<runtime, wrapResult, listeners, warnings>>

(***************************************************************************)
(* The system after wrapStoreSelectors(store, {s1, s2}, {portName, ...}).  *)
(***************************************************************************)
\* The store and the transport before any event.
InitStore ==
  /\ state = InitialState
  /\ portStatus = [p \in Ports |-> "unused"]
  /\ portNameOf = [p \in Ports |-> ""]
  /\ subscribers = <<>>
  /\ disconnectListeners = [p \in Ports |-> {}]
  /\ prevStates = [p \in Ports |-> EmptyView]
  /\ posted = [p \in Ports |-> <<>>]
  /\ req = [r \in Requests |-> NoRequest]
  /\ handled = NoRequest
  /\ received = 0

Init ==
  /\ InitStore
  /\ runtime = Sources
  /\ wrapResult = [status |-> "returned", error |-> "", options |-> GoodOptions]
  /\ listeners = Register(Sources)
  /\ warnings = Warnings(Sources)
  /\ via = "none"

Next ==
  \/ \E p \in Ports, name \in PortNames : Connect(p, name)
  \/ \E p \in Ports : Disconnect(p)
  \/ \E request \in Messages, sender \in Senders : Receive(request, sender)
  \/ \E r \in Requests, outcome \in Settlements : Settle(r, outcome)
  \/ \E r \in Requests : CloseChannel(r)

Spec == Init /\ [][Next]_vars

\* A promise that settles has its reactions run: the JavaScript job queue
\* runs every queued promise reaction once the running handler has returned.
\* The system from before the wrapStoreSelectors call, on a chrome.runtime
\* with or without the external event sources.
InitWrap ==
  /\ InitStore
  /\ runtime \in Runtimes
  /\ wrapResult = [status |-> "none", error |-> "", options |-> NoOptions]
  /\ listeners = NoListeners
  /\ warnings = <<>>
  /\ via = "none"

\* The messages delivered around the wrap call: a dispatch that changes the
\* state, one that returns a promise, and the unrelated traffic.
WrapMessages ==
  {m \in Messages :
     \/ m.type # DISPATCH_TYPE
     \/ m.portName # portName
     \/ deserializer(m.payload) \in {[type |-> "DEL", key |-> "a"], [type |-> "ASYNC"]}}

NextWrap ==
  \/ \E options \in OptionSets : Wrap(options)
  \/ \E src \in MessageSources, request \in WrapMessages, sender \in Senders :
       OnMessage(src, request, sender)
  \/ \E src \in ConnectSources, p \in Ports, name \in PortNames : OnConnect(src, p, name)
  \/ \E p \in Ports : Disconnect(p)
  \/ \E r \in Requests, outcome \in Settlements : Settle(r, outcome)
  \/ \E r \in Requests : CloseChannel(r)

SpecWrap == InitWrap /\ [][NextWrap]_vars

FairSpec == Spec /\ \A r \in Requests : WF_vars(\E outcome \in Settlements : Settle(r, outcome))

(***************************************************************************)
(* What a proxy holds (the proxy Store): a STATE message replaces its view *)
(* of a key, a PATCH_STATE message patches it.                             *)
(***************************************************************************)
MessagesFor(log, sKey) == SelectSeq(log, LAMBDA m : m.key = sKey)

RECURSIVE ProxyView(_, _)
ProxyView(view, msgs) ==
  IF msgs = <<>> THEN view
  ELSE LET m == Head(msgs)
           pl == deserializer(m.payload)
       IN  ProxyView(IF m.type = STATE_TYPE THEN pl ELSE ApplyPatch(view, pl), Tail(msgs))

\* The ports whose patchState listener the store holds.
SubscribedPorts == {subscribers[i] : i \in DOMAIN subscribers}
\* The ports that connected with the configured port name.
OurPorts == {p \in Ports : portStatus[p] # "unused" /\ portNameOf[p] = portName}
\* The messages a step posts on port p for selector key sKey.
Posting(p, sKey) ==
  MessagesFor(SubSeq(posted'[p], Len(posted[p]) + 1, Len(posted'[p])), sKey)

(***************************************************************************)
(* Claims.                                                                 *)
(***************************************************************************)

\* C1: on every port that connected with the configured port name, each
\* selector key has exactly one STATE message, and every STATE message
\* precedes every PATCH_STATE message of the port.
C1_StateFirst ==
  \A p \in OurPorts :
    /\ \A sKey \in SelectorNames :
         Cardinality({i \in DOMAIN posted[p] :
                        posted[p][i].type = STATE_TYPE /\ posted[p][i].key = sKey}) = 1
    /\ \A i, j \in DOMAIN posted[p] :
         (posted[p][i].type = STATE_TYPE /\ posted[p][j].type = PATCH_STATE_TYPE) => i < j
    /\ \A i \in DOMAIN posted[p] : posted[p][i].type \in {STATE_TYPE, PATCH_STATE_TYPE}

\* A port that received patches for both keys, while a later port connected
\* and disconnected.
C1_Witness ==
  \E p, q \in Ports :
    /\ p # q /\ p \in OurPorts /\ q \in OurPorts /\ portStatus[q] = "closed"
    /\ \E i, j \in DOMAIN posted[p] :
         /\ posted[p][i].type = PATCH_STATE_TYPE /\ posted[p][i].key = "s1"
         /\ posted[p][j].type = PATCH_STATE_TYPE /\ posted[p][j].key = "s2"

\* C2: for every connected port and selector key, the STATE payload patched
\* with the PATCH_STATE payloads in posting order equals the selector's view
\* of the current store state.
C2_ProxyViewCurrent ==
  \A p \in OurPorts : portStatus[p] = "open" =>
    \A sKey \in SelectorNames :
      ProxyView(EmptyView, MessagesFor(posted[p], sKey)) = Selector(sKey, state)

\* A connected port that was sent two patches for the same key, the first
\* of them deleting the field.
C2_Witness ==
  \E p \in OurPorts, sKey \in SelectorNames :
    /\ portStatus[p] = "open"
    /\ Len(MessagesFor(posted[p], sKey)) = 3
    /\ deserializer(MessagesFor(posted[p], sKey)[2].payload)[1].op = "delete"

\* C3: in every step, a selector whose view has an empty diff against the
\* port's cached view gets no message on that port and the cached view stays.
C3_NoOpSuppressed ==
  [][\A p \in SubscribedPorts, sKey \in SelectorNames :
       shallowDiff(prevStates[p][sKey], Selector(sKey, state')) = <<>>
         => /\ Posting(p, sKey) = <<>>
            /\ prevStates'[p][sKey] = prevStates[p][sKey]]_vars

\* A subscribed port saw a transition that changed a only: one patch for s1
\* and none for s2.
C3_Witness ==
  \E p \in SubscribedPorts :
    /\ Len(posted[p]) = 3
    /\ posted[p][3].type = PATCH_STATE_TYPE /\ posted[p][3].key = "s1"
    /\ shallowDiff(prevStates[p]["s2"], Selector("s2", state)) = <<>>

\* C4: in every step, every subscribed port is posted exactly one
\* PATCH_STATE message for each selector key whose view changed, and none
\* for the others.
C4_OnePatchPerChangedKey ==
  [][\A p \in SubscribedPorts, sKey \in SelectorNames :
       /\ Len(Posting(p, sKey)) =
            IF Selector(sKey, state') # Selector(sKey, state) THEN 1 ELSE 0
       /\ \A i \in DOMAIN Posting(p, sKey) : Posting(p, sKey)[i].type = PATCH_STATE_TYPE]_vars

\* The scenario: from {a:1, b:2} a dispatch changes b only; the port holds a
\* patch for s2 that updates b, and nothing for s1.
C4_Witness ==
  \E p \in SubscribedPorts :
    /\ Len(posted[p]) = 3
    /\ posted[p][3].type = PATCH_STATE_TYPE /\ posted[p][3].key = "s2"
    /\ deserializer(posted[p][3].payload) = <<[op |-> "update", key |-> "b", value |-> 1]>>
    /\ state = [InitialState EXCEPT !["b"] = 1]

\* C5: nothing is posted on a port whose disconnect has been handled.
C5_SilentAfterDisconnect ==
  [][\A p \in Ports : portStatus[p] = "closed" => posted'[p] = posted[p]]_vars

\* A disconnected port whose selectors would now produce a non-empty diff.
C5_Witness ==
  \E p \in OurPorts, sKey \in SelectorNames :
    /\ portStatus[p] = "closed"
    /\ shallowDiff(prevStates[p][sKey], Selector(sKey, state)) # <<>>

\* The record of the message received last: finished, or pending in req.
LatestRecord == IF handled.id = received THEN handled ELSE req[received]
\* handled records an accepted dispatch whose responder ran to its end.
Answered == handled.dispatchCalls = 1 /\ handled.pc \in {"done", "unhandled"}

\* C6: a failed dispatch (store.dispatch threw, or its promise rejected)
\* does not throw out of dispatchResponse and yields exactly one sendResponse
\* call, whose envelope has an error message and value null.
C6_FailedDispatchOneError ==
  (Answered /\ handled.result.status = "rejected") =>
    /\ handled.returned = "true"
    /\ Len(handled.sends) = 1
    /\ handled.sends[1].envelope.error.t = "string"
    /\ handled.sends[1].envelope.value = Null

\* C7: when store.dispatch throws Error("boom"), the response is
\* {error: "boom", value: null}.
C7_ThrownMessageSent ==
  (Answered /\ handled.action.type = "THROW") =>
    /\ handled.sends # <<>>
    /\ handled.sends[1].envelope = [error |-> Str(ThrownError.message), value |-> Null]

\* The envelope the default responder owes a settled dispatch result: a
\* value v gives {error: null, value: v}, a rejection with an error of
\* message m gives {error: m, value: null}.
Owed(result) ==
  IF result.status = "fulfilled" THEN [error |-> Null, value |-> result.value]
  ELSE [error |-> Str(result.value.message), value |-> Null]

\* C8: for a dispatch result that is a value, a promise resolving to a
\* value, or a promise rejecting with an error that has a message, the
\* response passed to sendResponse is the owed envelope, and no other
\* envelope is ever delivered.
C8_ResponseEnvelope ==
  (Answered /\ (handled.result.status = "fulfilled" \/ handled.result.value.t = "Error")) =>
    /\ handled.sends # <<>>
    /\ handled.sends[1].envelope = Owed(handled.result)
    /\ \A i \in DOMAIN handled.sends :
         ~handled.sends[i].raised => handled.sends[i].envelope = Owed(handled.result)

\* A dispatch whose promise rejected with Error("fail") was answered
\* {error: "fail", value: null}.
C8_Witness ==
  /\ Answered
  /\ handled.result = [status |-> "rejected", value |-> Err("fail")]
  /\ handled.sends = <<[envelope |-> [error |-> Str("fail"), value |-> Null],
                        raised |-> FALSE]>>

\* C9: sendResponse is invoked exactly once for every accepted dispatch,
\* whatever the outcome of the dispatch and of the sendResponse call.
C9_ExactlyOneSend == Answered => Len(handled.sends) = 1

\* C10: a message that is not a DISPATCH for the configured port name is
\* ignored: no store.dispatch, no deserialization, no sendResponse, no
\* `true` returned, and the store state, the cached views, the posted
\* messages and the pending dispatches stay as they are.
C10_ForeignIgnored ==
  [][(received' = received + 1
       /\ ~(LatestRecord'.type = DISPATCH_TYPE /\ LatestRecord'.portName = portName))
      => /\ LatestRecord'.pc = "ignored"
         /\ LatestRecord'.dispatchCalls = 0
         /\ ~LatestRecord'.deserialized
         /\ LatestRecord'.delivered = LatestRecord'.payload
         /\ LatestRecord'.sends = <<>>
         /\ LatestRecord'.returned = "undefined"
         /\ state' = state /\ prevStates' = prevStates /\ posted' = posted
         /\ req' = req]_vars

\* A DISPATCH message for another port name was ignored while a port was
\* subscribed and a dispatch was pending.
C10_Witness ==
  /\ handled.pc = "ignored"
  /\ handled.type = DISPATCH_TYPE /\ handled.portName = otherPortName
  /\ SubscribedPorts # {}
  /\ \E r \in Requests : req[r].pc = "pending"

\* The records of the dispatches dispatchResponse accepted: the one that
\* finished last and the pending ones.
AcceptedRecords ==
  {rec \in {handled} \cup {req[r] : r \in Requests} :
     rec.pc # "none" /\ rec.type = DISPATCH_TYPE /\ rec.portName = portName}

\* C11: for every accepted DISPATCH message store.dispatch is called once,
\* with the deserialized payload on every field but _sender, and with the
\* transport's sender as _sender, whatever _sender the payload carried.
C11_SenderAttached ==
  \A rec \in AcceptedRecords :
    /\ rec.dispatchCalls = 1
    /\ rec.delivered = deserializer(rec.payload)
    /\ DOMAIN rec.action = (DOMAIN rec.delivered) \cup {"_sender"}
    /\ rec.action["_sender"] = rec.sender
    /\ rec.sender \in Senders
    /\ \A k \in (DOMAIN rec.delivered) \ {"_sender"} : rec.action[k] = rec.delivered[k]

\* A payload that carried its own _sender was dispatched with the
\* transport's.
C11_Witness ==
  /\ Answered
  /\ "_sender" \in DOMAIN handled.delivered
  /\ handled.delivered["_sender"] = ForgedSender
  /\ handled.action["_sender"] = "tab1"
  /\ "a" \notin DOMAIN state

\* The view a port's messages for one selector key add up to: its STATE
\* payload with every later PATCH_STATE applied.
LastEmitted(p, sKey) == ProxyView(EmptyView, MessagesFor(posted[p], sKey))

\* C12: every PATCH_STATE payload posted on a port for a selector key is the
\* diff from the view last emitted on that port for that key to the
\* selector's view of the current state, and the cached previous view of a
\* connected port changes only in a step that emits a patch for that key on
\* that port, to the view the patch leads to.
C12_PatchFromLastEmitted ==
  [][\A p \in OurPorts : \A sKey \in SelectorNames :
       LET msgs == Posting(p, sKey) IN
       /\ Len(msgs) <= 1
       /\ prevStates[p][sKey] = LastEmitted(p, sKey)
       /\ \A i \in DOMAIN msgs :
            /\ msgs[i].type = PATCH_STATE_TYPE
            /\ deserializer(msgs[i].payload)
                 = shallowDiff(LastEmitted(p, sKey), Selector(sKey, state'))
       /\ (prevStates'[p][sKey] # prevStates[p][sKey]) => msgs # <<>>
       /\ msgs # <<>> => prevStates'[p][sKey] = Selector(sKey, state')
    ]_vars

\* A port received a second patch for one key, computed from the result of
\* the first, while the other key's cache still is its STATE payload.
C12_Witness ==
  \E p \in OurPorts : \E sKey, other \in SelectorNames :
    /\ Len(MessagesFor(posted[p], sKey)) = 3
    /\ Len(MessagesFor(posted[p], other)) = 1
    /\ prevStates[p][sKey] # deserializer(MessagesFor(posted[p], sKey)[1].payload)
    /\ prevStates[p][sKey] = Selector(sKey, state)

\* What one notification of port p's own listener yields from p's own cache.
OwnPatch(p) == patchState(SelectorKeys, [prev |-> prevStates[p], out |-> <<>>], state')

\* C13: ports connected with the configured name keep independent caches. A
\* step that connects or disconnects one port leaves every other port's
\* cache and messages unchanged; in every other step a port's new cache and
\* new messages are what its own listener computes from its own cache alone
\* (nothing if it is not subscribed); and the STATE messages of a connecting
\* port carry the selectors' views of the state at that connect.
C13_IndependentCaches ==
  [][\A p \in Ports :
       /\ (\E q \in Ports \ {p} : portStatus'[q] # portStatus[q])
            => (prevStates'[p] = prevStates[p] /\ posted'[p] = posted[p])
       /\ (portStatus' = portStatus /\ p \in SubscribedPorts)
            => /\ prevStates'[p] = OwnPatch(p).prev
               /\ posted'[p] = posted[p] \o OwnPatch(p).out
       /\ (portStatus' = portStatus /\ p \notin SubscribedPorts)
            => (prevStates'[p] = prevStates[p] /\ posted'[p] = posted[p])
       /\ (portStatus[p] = "unused" /\ portStatus'[p] = "open" /\ portNameOf'[p] = portName)
            => /\ Len(posted'[p]) = Len(SelectorKeys)
               /\ \A i \in DOMAIN SelectorKeys :
                    /\ posted'[p][i].key = SelectorKeys[i]
                    /\ deserializer(posted'[p][i].payload) = Selector(SelectorKeys[i], state)
                    /\ prevStates'[p][SelectorKeys[i]] = Selector(SelectorKeys[i], state)
    ]_vars

\* Two ports connected at different times: their first messages differ, the
\* earlier one was closed with a cache the later connect left stale.
C13_Witness ==
  \E p, q \in OurPorts : \E sKey \in SelectorNames :
    /\ p # q
    /\ portStatus[p] = "closed" /\ portStatus[q] = "open"
    /\ MessagesFor(posted[p], sKey)[1].payload # MessagesFor(posted[q], sKey)[1].payload
    /\ prevStates[p][sKey] # prevStates[q][sKey]
    /\ prevStates[q][sKey] = Selector(sKey, state)

\* C15: when the channel of a pending dispatch has closed, so that
\* sendResponse raises once the result settles, the response is dropped:
\* sendResponse is not invoked a second time and the responder's promise
\* chain ends without an unhandled rejection.
C15_DroppedSafely ==
  (Answered /\ ~handled.chanOpen /\ handled.sends[1].raised)
    => (Len(handled.sends) = 1 /\ handled.pc = "done")

\* The pending dispatches.
Pending == {r \in Requests : req[r].pc = "pending"}

\* C17: pending dispatches settle in any order, each on its own. The step
\* that settles request r answers r's record, with r's action; every
\* sendResponse call of that step is a call of r's own sendResponse (it
\* raises exactly if r's channel has closed) and every response delivered
\* is the envelope of r's own outcome; every other pending dispatch stays as
\* it was. A pending dispatch is changed by no step but its own settlement and
\* the closing of its own channel.
C17_IndependentResponses ==
  [][\A r \in Pending :
       \/ req'[r] = req[r]
       \/ req'[r] = [req[r] EXCEPT !.chanOpen = FALSE]
            /\ \A q \in Requests \ {r} : req'[q] = req[q]
            /\ handled' = handled
       \/ /\ req'[r] = NoRequest
          /\ \A q \in Requests \ {r} : req'[q] = req[q]
          /\ handled'.id = r
          /\ handled'.action = req[r].action
          /\ handled'.sender = req[r].sender
          /\ handled'.chanOpen = req[r].chanOpen
          /\ handled'.result \in Settlements
          /\ handled'.sends # <<>>
          /\ \A i \in DOMAIN handled'.sends :
               /\ handled'.sends[i].raised = ~req[r].chanOpen
               /\ ~handled'.sends[i].raised =>
                    handled'.sends[i].envelope =
                      (IF handled'.result.status = "fulfilled"
                         THEN [error |-> Null, value |-> handled'.result.value]
                         ELSE [error |-> MessageOf(handled'.result.value), value |-> Null])
    ]_vars

\* The second of two pending dispatches settled first and was answered on
\* its open channel, while the first, whose channel has closed, is still
\* pending.
C17_Witness ==
  /\ Answered
  /\ handled.id = 2
  /\ handled.result = [status |-> "rejected", value |-> Err("fail")]
  /\ handled.sends = <<[envelope |-> [error |-> Str("fail"), value |-> Null],
                        raised |-> FALSE]>>
  /\ handled.pc = "done"
  /\ req[1].pc = "pending"
  /\ ~req[1].chanOpen

\* The ports that connected with the configured name and have not
\* disconnected.
ActivePorts == {p \in OurPorts : portStatus[p] = "open"}
\* The number of store subscriptions held for port p.
Subscriptions(p) == Cardinality({i \in DOMAIN subscribers : subscribers[i] = p})

\* C18: in every reachable state the store subscriptions are exactly those
\* of the ports that connected with the configured name and have not
\* disconnected, one subscription each; the step that disconnects a port
\* releases its subscription, and a closed port stays closed and
\* unsubscribed.
C18_ChannelLifecycle ==
  /\ [](/\ SubscribedPorts = ActivePorts
        /\ \A p \in ActivePorts : Subscriptions(p) = 1
        /\ Len(subscribers) = Cardinality(ActivePorts))
  /\ [][\A p \in Ports :
          /\ (portStatus[p] = "open" /\ portStatus'[p] = "closed")
               => (Subscriptions(p)' = 0 /\ posted'[p] = posted[p])
          /\ portStatus[p] = "closed"
               => (portStatus'[p] = "closed" /\ Subscriptions(p)' = 0)
          /\ portStatus[p] = "open" => portStatus'[p] \in {"open", "closed"}
     ]_vars

\* One matching port connected and disconnected, a later one is active and
\* holds the only subscription.
C18_Witness ==
  \E p, q \in OurPorts :
    /\ portStatus[p] = "closed"
    /\ portStatus[q] = "open"
    /\ subscribers = <<q>>
    /\ Len(posted[q]) > Len(SelectorKeys)

\* The ports that connected with another name than the configured one.
ForeignPorts == {p \in Ports : portStatus[p] # "unused" /\ portNameOf[p] # portName}

\* C19: a port that connected with a name other than the configured one is
\* ignored for good: no message is ever posted on it, it holds no store
\* subscription and no disconnect listener, and no selector view was
\* computed for it; every port that connected with the configured name got
\* its initial views and the disconnect listener.
C19_ForeignConnectionIgnored ==
  /\ \A p \in ForeignPorts :
       /\ posted[p] = <<>>
       /\ p \notin SubscribedPorts
       /\ disconnectListeners[p] = {}
       /\ prevStates[p] = EmptyView
  /\ \A p \in OurPorts :
       /\ Len(posted[p]) >= Len(SelectorKeys)
       /\ \A i \in DOMAIN SelectorKeys : posted[p][i].type = STATE_TYPE
       /\ DOMAIN prevStates[p] = SelectorNames
       /\ disconnectListeners[p] = {"unsubscribe"}

\* A foreign port connected first and is still open; a matching port that
\* connected after it has been sent a patch meanwhile.
C19_Witness ==
  \E p \in ForeignPorts : \E q \in OurPorts :
    /\ p < q
    /\ portStatus[p] = "open" /\ portStatus[q] = "open"
    /\ posted[p] = <<>>
    /\ Len(posted[q]) > Len(SelectorKeys)
    /\ subscribers = <<q>>

\* C16: when every pending dispatch promise settles, every accepted DISPATCH
\* leads to a call of its sendResponse: a pending one when its promise
\* settles, every other one before its handler's reactions end. The handler
\* returned true for each of them, and while a dispatch is pending the hub
\* still takes further messages and connections.
C16_EventuallyAnswered ==
  /\ \A r \in Requests :
       (req[r].pc = "pending")
         ~> (handled.id = r /\ handled.dispatchCalls = 1 /\ handled.sends # <<>>)
  /\ [](\A rec \in AcceptedRecords :
          /\ rec.returned = "true"
          /\ rec.pc = "pending" \/ rec.sends # <<>>)
  /\ [](Pending # {} =>
          /\ received < MaxRequests
               => ENABLED (\E m \in Messages : \E s \in Senders : Receive(m, s))
          /\ (\E p \in Ports : portStatus[p] = "unused")
               => ENABLED (\E p \in Ports : \E n \in PortNames : Connect(p, n))
          /\ (\E p \in Ports : portStatus[p] = "open")
               => ENABLED (\E p \in Ports : Disconnect(p)))

\* A dispatch stayed pending while a later dispatch was answered and a port
\* connected and was sent a patch; then its promise rejected and its
\* sendResponse was called with the error.
C16_Witness ==
  /\ Answered
  /\ handled.id = 1
  /\ handled.returned = "true"
  /\ handled.result = [status |-> "rejected", value |-> Err("fail")]
  /\ handled.sends # <<>>
  /\ received = 2
  /\ \E p \in OurPorts : Len(posted[p]) > Len(SelectorKeys)

\* Options wrapStoreSelectors must refuse.
BadOptions(options) ==
  \/ options.portName = ""
  \/ options.serializer # "function"
  \/ options.deserializer # "function"

\* C14: a wrapStoreSelectors call with a missing portName or with a
\* serializer or deserializer that is not a function throws, in the call
\* itself, an error naming a defect the options have, and leaves everything
\* as it was: no listener on any event source, no store subscription, no
\* port served, no message handled, nothing logged. A call with good
\* options does not throw.
C14_BadOptionsThrow ==
  /\ wrapResult.status # "none"
       => (BadOptions(wrapResult.options) <=> wrapResult.status = "threw")
  /\ wrapResult.status = "threw"
       => /\ wrapResult.error \in {"portName is required in options",
                                   "serializer must be a function",
                                   "deserializer must be a function"}
          /\ wrapResult.error = "portName is required in options"
               => wrapResult.options.portName = ""
          /\ wrapResult.error = "serializer must be a function"
               => wrapResult.options.serializer # "function"
          /\ wrapResult.error = "deserializer must be a function"
               => wrapResult.options.deserializer # "function"
          /\ listeners = NoListeners
          /\ subscribers = <<>>
          /\ warnings = <<>>
          /\ via = "none"
          /\ received = 0
          /\ state = InitialState
          /\ \A p \in Ports : portStatus[p] = "unused" /\ posted[p] = <<>>
  /\ wrapResult.status = "none" => listeners = NoListeners

\* The call without a portName threw on a chrome.runtime that has every
\* event source, and no listener was added.
C14_Witness ==
  /\ wrapResult.status = "threw"
  /\ wrapResult.options = [GoodOptions EXCEPT !.portName = ""]
  /\ wrapResult.error = "portName is required in options"
  /\ runtime = Sources
  /\ listeners = NoListeners

\* The internal event source an external one mirrors.
InternalOf(src) == IF src = "onMessageExternal" THEN "onMessage" ELSE "onConnect"
\* A step in which an event source of chrome.runtime delivered a message,
\* or a connection.
MessageStep == received' = received + 1
ConnectStep == \E p \in Ports : portStatus[p] = "unused" /\ portStatus'[p] = "open"

\* C20: a wrapStoreSelectors call with good options returns whether or not
\* chrome.runtime has the external event sources. It adds dispatchResponse
\* to onMessage and connectState to onConnect; to each external source that
\* exists it adds the handler of its internal counterpart; for each external
\* source that is missing it adds nothing and logs one warning. Every
\* message and connection, from an internal or an external source, is then
\* handled by that same handler.
C20_ExternalSourcesOptional ==
  /\ [](wrapResult.status # "none" /\ ~BadOptions(wrapResult.options)
          => /\ wrapResult.status = "returned"
             /\ listeners["onMessage"] = "dispatchResponse"
             /\ listeners["onConnect"] = "connectState"
             /\ \A src \in ExternalSources :
                  IF src \in runtime
                    THEN /\ listeners[src] = listeners[InternalOf(src)]
                         /\ \A i \in DOMAIN warnings : warnings[i] # WarningFor(src)
                    ELSE /\ listeners[src] = "none"
                         /\ Cardinality({i \in DOMAIN warnings : warnings[i] = WarningFor(src)}) = 1
             /\ Len(warnings) = Cardinality(ExternalSources \ runtime))
  /\ [][/\ MessageStep
             => /\ via' \in MessageSources \cap runtime
                /\ \E m \in Messages : \E s \in Senders : dispatchResponse(m, s)
        /\ ConnectStep
             => /\ via' \in ConnectSources \cap runtime
                /\ \E p \in Ports : \E n \in PortNames : connectState(p, n)
        /\ wrapResult.status = "returned"
             => /\ received < MaxRequests
                  => \A src \in MessageSources \cap runtime :
                       ENABLED (\E m \in WrapMessages : \E s \in Senders : OnMessage(src, m, s))
                /\ (\E p \in Ports : portStatus[p] = "unused")
                  => \A src \in ConnectSources \cap runtime :
                       ENABLED (\E p \in Ports : \E n \in PortNames : OnConnect(src, p, n))
     ]_vars

\* chrome.runtime has onMessageExternal but no onConnectExternal: the wrap
\* call returned with the one warning, a port connected through onConnect,
\* and a dispatch that came through onMessageExternal was answered and
\* patched that port.
C20_Witness ==
  /\ wrapResult.status = "returned"
  /\ runtime = InternalSources \cup {"onMessageExternal"}
  /\ warnings = <<"runtime.onConnectExternal is not supported">>
  /\ listeners["onConnectExternal"] = "none"
  /\ via = "onMessageExternal"
  /\ Answered
  /\ handled.id = received
  /\ handled.sends = <<[envelope |-> [error |-> Null, value |-> Obj(handled.action)],
                        raised |-> FALSE]>>
  /\ \E p \in OurPorts : Len(posted[p]) > Len(SelectorKeys)
====
